---- MODULE Spec2Model ----
(***************************************************************************)
(* A model of src/stock_usa.py: TradingViewScraperOptimized.               *)
(*                                                                         *)
(* The module holds several specifications over one set of variables; each *)
(* drives one part of the scraper and keeps the other parts at rest:       *)
(*   SpecPaginate   one call of load_all_rows against an arbitrary page    *)
(*   SpecPaginateFair  the same, with the scheduling that lets it proceed  *)
(*   SpecRun        run(): start, load_page, the 9 tabs, the export, close *)
(*   SpecSession    start() and close() called by any caller               *)
(*   SpecTicker     extract_ticker_parts on one cell text                  *)
(*   SpecSplit      split_ticker_column on a table and on its own result   *)
(*   SpecExtract    extract_table_data_fast on one page                    *)
(*   SpecFormat     format_excel_professionally on one sheet               *)
(***************************************************************************)
EXTENDS Integers, Sequences, FiniteSets, TLC

VARIABLES
    \* ---- load_all_rows (one call) and the page it drives
    lar_pc,                 \* position in load_all_rows
    is_first_tab,           \* its parameter
    current_count,          \* local: the row count sampled at entry
    clicks,                 \* local: successful Load More activations
    consecutive_failures,   \* local: timeouts since the last activation
    total_rows_loaded,      \* self.total_rows_loaded
    row_count,              \* rows the page shows (tr.listRow)
    last_outcome,           \* what the last pass of the loop met ("" before)
    lar_exit,               \* why the call ended ("" while it runs)
    lar_ret,                \* the value returned
    \* ---- the session: start(), close(), run()
    playwright,             \* self.playwright is set (not None)
    browser,                \* self.browser is set
    page,                   \* self.page is set
    live,                   \* what really runs: the browser, the engine
    run_pc,                 \* position in run() ("idle": run() is not used)
    last_step,              \* the step run() or the caller executed last
    close_calls,            \* calls of close() so far
    last_close,             \* what the last call of close() did
    escaped,                \* an exception left run() or close()
    \* ---- scrape_all_tabs and scrape_tab
    idx,                    \* index of the tab in hand, 0-based
    tab_pc,                 \* position in the loop over the tabs
    all_data,               \* tab name -> kind of table stored
    df,                     \* what scrape_tab returns for the tab in hand
    tab_trace,              \* what was done for the tab in hand
    \* ---- extract_ticker_parts on one text
    ticker_text,            \* the argument
    ticker_parts,           \* the pair returned (<<>> before the call)
    \* ---- split_ticker_column on one DataFrame, and on its own result
    split_pc,               \* "idle", "start", "once", "twice", "raised"
    split_in,               \* the DataFrame given
    split_once,             \* split_ticker_column(split_in)
    split_twice,            \* split_ticker_column(split_once)
    \* ---- extract_table_data_fast on one page
    ext_pc,                 \* "idle", "start", "done"
    ext_dom,                \* the table of the page: header fields and rows
    ext_locals,             \* the locals the call computed on its way
    ext_ret,                \* the DataFrame returned
    \* ---- format_excel_professionally on one sheet
    fmt_pc,                 \* "idle", "start", "done"
    fmt_in,                 \* the sheet as save_to_excel wrote it
    fmt_sheet               \* the sheet as the call leaves it

pageVars == <<lar_pc, is_first_tab, current_count, clicks,
              consecutive_failures, total_rows_loaded, row_count,
              last_outcome, lar_exit, lar_ret>>

handleVars == <<playwright, browser, page, live>>

sessionVars == <<handleVars, run_pc, last_step, close_calls, last_close,
                 escaped>>

tabVars == <<idx, tab_pc, all_data, df, tab_trace>>

tickerVars == <<ticker_text, ticker_parts>>

splitVars == <<split_pc, split_in, split_once, split_twice>>

extractVars == <<ext_pc, ext_dom, ext_locals, ext_ret>>

formatVars == <<fmt_pc, fmt_in, fmt_sheet>>

pureVars == <<tickerVars, splitVars, extractVars, formatVars>>

vars == <<pageVars, sessionVars, tabVars, pureVars>>

----------------------------------------------------------------------------
(* Bounds of the model and constants of the program *)

\* The largest number of rows a page shows.
MaxRows == 2

\* max_clicks = 150
max_clicks == 150

\* The most calls of close() a caller of the session makes.
MaxCloses == 3

\* The longest text extract_ticker_parts is tried on, all texts over
\* TextAlphabet up to that length (and the texts named in TickerExamples).
MaxTextLen == 5

\* The most rows of a DataFrame given to split_ticker_column.
MaxSplitRows == 2

\* The most header cells of the page's table, and the most cells of a row.
MaxFields == 3
MaxCells == 3

\* The longest text of a sheet cell, the named examples apart.
MaxCellLen == 3

----------------------------------------------------------------------------
(* get_current_row_count: the locator's count, 0 when the count raises *)

get_current_row_count(count_raises) ==
    IF count_raises THEN 0 ELSE row_count

----------------------------------------------------------------------------
(* load_all_rows *)

\* What one pass through the body of the while loop can meet: the control is
\* not visible; the probe, the scroll or the click raises PlaywrightTimeout or
\* another Exception; or all three succeed. The variant is a first handler
\* that also catches what the click raises.
Timeouts_AndClickError ==
    {"probe_timeout", "scroll_timeout", "click_timeout", "click_error"}

Timeouts == {"probe_timeout", "scroll_timeout", "click_timeout"}
OtherFailures == {"probe_error", "scroll_error", "click_error"}
Outcomes == {"not_visible", "clicked"} \cup Timeouts \cup OtherFailures

\* `current_count >= self.total_rows_loaded * 0.95`, on integers: for counts
\* of rows the product in floating point falls on the same side of every
\* integer as total * 95 / 100. One variant asks for the whole maximum, the
\* other skips only once a maximum is known.
SkipTest_Whole(sampled, total) ==
    sampled >= total

SkipTest_KnownMaximum(sampled, total) ==
    total > 0 /\ sampled * 100 >= total * 95

SkipTest(sampled, total) ==
    sampled * 100 >= total * 95

\* Lines 82-92: on a tab that is not the first the count is sampled and the
\* skip test applied; when it fails, and on the first tab, the locals of the
\* loop are set.
LoadEnter(count_raises) ==
    /\ lar_pc = "entry"
    /\ current_count' = IF is_first_tab THEN current_count
                        ELSE get_current_row_count(count_raises)
    /\ IF ~is_first_tab /\ SkipTest(current_count', total_rows_loaded)
       THEN /\ lar_pc' = "returned"
            /\ lar_exit' = "skip"
            /\ lar_ret' = 0
            /\ UNCHANGED <<clicks, consecutive_failures>>
       ELSE /\ lar_pc' = "loop"
            /\ clicks' = 0
            /\ consecutive_failures' = 0
            /\ UNCHANGED <<lar_exit, lar_ret>>
    /\ UNCHANGED <<is_first_tab, total_rows_loaded, row_count, last_outcome>>

\* Line 94: `while clicks < max_clicks`. The variant admits one pass more.
LoopTest_OffByOne(c) == c <= max_clicks

LoopTest(c) == c < max_clicks

\* Line 112: `consecutive_failures += 1`
AfterTimeout(failures) == failures + 1

\* Line 113: `if consecutive_failures >= 2: break`. One variant retries for
\* ever, the other gives up at the first timeout.
TimeoutBreaks_Never(failures) == FALSE

TimeoutBreaks_AtOnce(failures) == failures >= 1

TimeoutBreaks(failures) == failures >= 2

\* Lines 94-116: the loop test and one pass through the loop body. `more` is
\* the number of rows a successful activation makes the page append.
LoopBody(outcome, more) ==
    IF ~LoopTest(clicks)
    THEN /\ lar_pc' = "after"
         /\ lar_exit' = "budget"
         /\ UNCHANGED <<clicks, consecutive_failures, row_count, last_outcome>>
    ELSE /\ last_outcome' = outcome
         /\ CASE outcome = "not_visible" ->
                /\ lar_pc' = "after"
                /\ lar_exit' = "not_visible"
                /\ UNCHANGED <<clicks, consecutive_failures, row_count>>
           [] outcome = "clicked" ->
                /\ clicks' = clicks + 1
                /\ consecutive_failures' = 0
                /\ row_count' = row_count + more
                /\ UNCHANGED <<lar_pc, lar_exit>>
           [] outcome \in Timeouts ->
                /\ consecutive_failures' = AfterTimeout(consecutive_failures)
                /\ IF TimeoutBreaks(AfterTimeout(consecutive_failures))
                   THEN lar_pc' = "after" /\ lar_exit' = "timeouts"
                   ELSE UNCHANGED <<lar_pc, lar_exit>>
                /\ UNCHANGED <<clicks, row_count>>
           [] outcome \in OtherFailures ->
                /\ lar_pc' = "after"
                /\ lar_exit' = "error"
                /\ UNCHANGED <<clicks, consecutive_failures, row_count>>

\* One pass of the loop; an activation appends `more` rows, for some `more` of
\* `growth`, and the page then shows one of the row counts `sizes`.
LoadStep(growth, sizes) ==
    /\ lar_pc = "loop"
    /\ \E outcome \in Outcomes, more \in growth \cup {0} :
          /\ IF outcome = "clicked"
             THEN more \in growth /\ row_count + more \in sizes
             ELSE more = 0
          /\ LoopBody(outcome, more)
    /\ UNCHANGED <<is_first_tab, current_count, total_rows_loaded, lar_ret>>

\* Lines 118-123: the final sample, the cumulative maximum, the return.
LoadFinish(count_raises) ==
    /\ lar_pc = "after"
    /\ LET final_count == get_current_row_count(count_raises) IN
          total_rows_loaded' = IF final_count > total_rows_loaded
                               THEN final_count
                               ELSE total_rows_loaded
    /\ lar_ret' = clicks
    /\ lar_pc' = "returned"
    /\ UNCHANGED <<is_first_tab, current_count, clicks, consecutive_failures,
                   row_count, last_outcome, lar_exit>>

----------------------------------------------------------------------------
(* start and close *)

\* last_close before any call of close()
NoClose == [browser_close_called |-> FALSE, stop_called |-> FALSE,
            raised |-> FALSE, browser_close_failed |-> FALSE,
            stop_failed |-> FALSE]

\* tab_trace of a tab nothing was done for yet
NoTrace == [clicked |-> "pending", paginated |-> FALSE, extracted |-> FALSE,
            met |-> ""]

\* How far start() gets: each await of lines 23-34 may raise.
StartOutcomes ==
    {"ok", "engine_fails", "launch_fails", "context_fails", "page_fails"}

\* The fields start() has set when it ends with `outcome` (lines 23, 24, 34)
StartSets(outcome) ==
    [playwright |-> outcome # "engine_fails",
     browser |-> outcome \in {"ok", "context_fails", "page_fails"},
     page |-> outcome = "ok"]

\* What runs once start() has ended with `outcome`
StartRuns(outcome) ==
    [browser |-> StartSets(outcome).browser,
     engine |-> StartSets(outcome).playwright]

\* What still runs after a call of close(): a browser close that is made and
\* does not fail ends the browser, an engine stop that is made and does not
\* fail ends the engine and its browser.
StillRuns(was, done, browser_fails, stop_fails) ==
    LET stopped == done.stop_called /\ ~stop_fails
        closed == done.browser_close_called /\ ~browser_fails
    IN  [browser |-> was.browser /\ ~closed /\ ~stopped,
         engine |-> was.engine /\ ~stopped]

\* Lines 39-44: `if self.browser: await self.browser.close()` in its own try;
\* `except Exception` lets nothing through. The variant drops the guard.
CloseBrowserBlock_Unguarded(br, fails) ==
    [called |-> br, propagates |-> br /\ fails]

CloseBrowserBlock(br, fails) ==
    [called |-> br, propagates |-> FALSE]

\* Lines 46-51: `if self.playwright: await self.playwright.stop()` in its own try
StopPlaywrightBlock(pw, fails) ==
    [called |-> pw, propagates |-> FALSE]

\* close(): the two blocks in sequence; the second runs unless the first lets
\* an exception through.
close(br, pw, browser_fails, stop_fails) ==
    LET b == CloseBrowserBlock(br, browser_fails)
        s == IF b.propagates
             THEN [called |-> FALSE, propagates |-> TRUE]
             ELSE StopPlaywrightBlock(pw, stop_fails)
    IN  [browser_close_called |-> b.called,
         stop_called |-> s.called,
         raised |-> s.propagates,
         browser_close_failed |-> b.called /\ browser_fails,
         stop_failed |-> s.called /\ stop_fails]

\* A call of close() on the session as it is
Close(browser_fails, stop_fails) ==
    /\ last_close' = close(browser, playwright, browser_fails, stop_fails)
    /\ close_calls' = close_calls + 1
    /\ escaped' = (escaped \/ last_close'.raised)
    /\ last_step' = "close"
    /\ live' = StillRuns(live, last_close', browser_fails, stop_fails)
    /\ UNCHANGED <<playwright, browser, page>>

----------------------------------------------------------------------------
(* Text: a Python str is the sequence of its characters *)

UpperChars == {"A", "B", "C", "D", "E", "F", "G", "H", "I", "J", "K", "L", "M",
               "N", "O", "P", "Q", "R", "S", "T", "U", "V", "W", "X", "Y", "Z"}

LowerChars == {"a", "b", "c", "d", "e", "f", "g", "h", "i", "j", "k", "l", "m",
               "n", "o", "p", "q", "r", "s", "t", "u", "v", "w", "x", "y", "z"}

\* What str.strip() removes and the pattern \s matches
SpaceChars == {" ", "\n", "\t", "\r"}

\* A cell that holds no text (pandas' NaN or None): no str is equal to it
NaN == <<"NaN">>

\* str.lstrip(), str.rstrip(), str.strip()
RECURSIVE LStrip(_)
LStrip(s) ==
    IF s # <<>> /\ Head(s) \in SpaceChars THEN LStrip(Tail(s)) ELSE s

RECURSIVE RStrip(_)
RStrip(s) ==
    IF s # <<>> /\ s[Len(s)] \in SpaceChars
    THEN RStrip(SubSeq(s, 1, Len(s) - 1))
    ELSE s

Strip(s) == RStrip(LStrip(s))

\* str.split(sep) for a separator of one character: the pieces between the
\* separators, empty pieces kept
RECURSIVE SplitOn(_, _)
SplitOn(s, sep) ==
    IF \E i \in 1..Len(s) : s[i] = sep
    THEN LET i == CHOOSE i \in 1..Len(s) :
                     s[i] = sep /\ \A j \in 1..(i - 1) : s[j] # sep
         IN  <<SubSeq(s, 1, i - 1)>> \o SplitOn(SubSeq(s, i + 1, Len(s)), sep)
    ELSE <<s>>

\* ' '.join(pieces)
RECURSIVE JoinSpace(_)
JoinSpace(pieces) ==
    IF pieces = <<>> THEN <<>>
    ELSE IF Len(pieces) = 1 THEN pieces[1]
    ELSE pieces[1] \o <<" ">> \o JoinSpace(Tail(pieces))

\* str.isupper(): some cased character, and no lowercase one
IsUpper(s) ==
    /\ \E i \in 1..Len(s) : s[i] \in UpperChars \cup LowerChars
    /\ \A i \in 1..Len(s) : s[i] \notin LowerChars

----------------------------------------------------------------------------
(* extract_ticker_parts, lines 233-253 *)

\* The length of the longest prefix of s made of the characters [A-Z]
RECURSIVE UpperRun(_)
UpperRun(s) ==
    IF s # <<>> /\ Head(s) \in UpperChars THEN 1 + UpperRun(Tail(s)) ELSE 0

\* re.match(r'^([A-Z]{1,5})\s+(.+)$', text) on a stripped text of one line:
\* <<group(1), group(2)>>, or <<>> for no match. A match takes the whole
\* uppercase prefix (what follows it must be \s), then all the spaces.
TickerPattern(t) ==
    LET k == UpperRun(t)
        after == SubSeq(t, k + 1, Len(t))
        rest == LStrip(after)
    IN  IF k \in 1..5 /\ after # <<>> /\ Head(after) \in SpaceChars
           /\ rest # <<>>
        THEN <<SubSeq(t, 1, k), rest>>
        ELSE <<>>

\* The rule of extract_ticker_parts that decides `text`: the `if`s of lines
\* 234, 239, 245 and 250 in their order, 5 for the final return. The variant
\* tries the pattern before the short uppercase test.
TickerRule_PatternFirst(text) ==
    IF text = NaN \/ text = <<>> THEN 1
    ELSE IF Len(SplitOn(text, "\n")) >= 2 THEN 2
    ELSE IF TickerPattern(Strip(text)) # <<>> THEN 4
    ELSE IF Len(Strip(text)) <= 5 /\ IsUpper(Strip(text)) THEN 3
    ELSE 5

TickerRule(text) ==
    IF text = NaN \/ text = <<>> THEN 1
    ELSE IF Len(SplitOn(text, "\n")) >= 2 THEN 2
    ELSE IF Len(Strip(text)) <= 5 /\ IsUpper(Strip(text)) THEN 3
    ELSE IF TickerPattern(Strip(text)) # <<>> THEN 4
    ELSE 5

extract_ticker_parts(text) ==
    LET rule == TickerRule(text)
        lines == SplitOn(text, "\n")
        t == Strip(text)
    IN  CASE rule = 1 -> << <<>>, <<>> >>
          [] rule = 2 -> <<Strip(lines[1]), Strip(JoinSpace(Tail(lines)))>>
          [] rule = 3 -> <<t, <<>> >>
          [] rule = 4 -> TickerPattern(t)
          [] rule = 5 -> <<t, <<>> >>

----------------------------------------------------------------------------
(* DataFrames: the column names in order and the rows, each row a sequence of
   cells, one per column; a cell is a text or NaN *)

\* pd.DataFrame()
EmptyFrame == [cols |-> <<>>, rows |-> <<>>]

\* In place of a DataFrame: the call raised (ValueError)
Raised == [cols |-> <<"!">>, rows |-> <<>>, raised |-> TRUE]

\* The columns of the name
Named(cols, name) == {i \in 1..Len(cols) : cols[i] = name}

\* list.insert / DataFrame.insert: x becomes the element after the first `loc`
InsertAt(seq, loc, x) ==
    SubSeq(seq, 1, loc) \o <<x>> \o SubSeq(seq, loc + 1, Len(seq))

\* Line 229: `'Company Name' in df.columns and df['Company Name'].notna().any()`
\* for a single column of that name. The variant never finds it populated.
CompanyNamePopulated_Never(frame) == FALSE

CompanyNamePopulated(frame) ==
    \E c \in Named(frame.cols, "Company Name") :
        \E r \in 1..Len(frame.rows) : frame.rows[r][c] # NaN

\* Lines 255-260: the column inserted when it is missing, then both columns
\* rewritten from the parts of the Ticker cell of each row
SplitRows(frame) ==
    LET full == IF Named(frame.cols, "Company Name") = {}
                THEN [cols |-> InsertAt(frame.cols, 1, "Company Name"),
                      rows |-> [r \in 1..Len(frame.rows) |->
                                   InsertAt(frame.rows[r], 1, <<>>)]]
                ELSE frame
        tk == CHOOSE c \in 1..Len(full.cols) : full.cols[c] = "Ticker"
        cn == CHOOSE c \in 1..Len(full.cols) : full.cols[c] = "Company Name"
    IN  [cols |-> full.cols,
         rows |-> [r \in 1..Len(full.rows) |->
                     LET parts == extract_ticker_parts(full.rows[r][tk]) IN
                     [c \in 1..Len(full.cols) |->
                         IF c = tk THEN parts[1]
                         ELSE IF c = cn THEN parts[2]
                         ELSE full.rows[r][c]]]]

\* split_ticker_column, lines 223-262. With two columns named Company Name the
\* test of line 229 is the truth value of a Series, and with two columns named
\* Ticker (and rows) line 258 applies extract_ticker_parts to whole columns:
\* both raise ValueError.
split_ticker_column(frame) ==
    IF Named(frame.cols, "Ticker") = {} THEN frame
    ELSE IF Cardinality(Named(frame.cols, "Company Name")) >= 2 THEN Raised
    ELSE IF CompanyNamePopulated(frame) THEN frame
    ELSE IF Cardinality(Named(frame.cols, "Ticker")) >= 2 THEN Raised
    ELSE SplitRows(frame)

----------------------------------------------------------------------------
(* extract_table_data_fast: the script run in the page (lines 132-180), the
   header and column reconciliation (lines 187-207), the ticker split
   (lines 210-211) *)

\* querySelector found no element
Null == <<"null">>

\* str.lower() on the header fields that occur. The variant compares the
\* field as it is written.
Lower_AsWritten(name) == name

Lower(name) ==
    CASE name = "Symbol" -> "symbol"
      [] name = "TICKER" -> "ticker"
      [] name = "Ticker" -> "ticker"
      [] name = "Price" -> "price"
      [] name = "Company Name" -> "company name"
      [] OTHER -> name

\* Lines 148-168: the two values pushed for the first cell of a row
FirstCell(cell) ==
    IF cell.symbol # Null /\ cell.desc # Null
    THEN <<Strip(cell.symbol), Strip(cell.desc)>>
    ELSE LET fullText == Strip(cell.innerText)
             lines == SplitOn(fullText, "\n")
         IN  IF Len(lines) >= 2
             THEN <<Strip(lines[1]), Strip(JoinSpace(Tail(lines)))>>
             ELSE <<fullText, <<>>>>

\* Lines 143-171: rowData of one tr
RowData(cells) ==
    IF cells = <<>> THEN <<>>
    ELSE [i \in 1..(Len(cells) + 1) |->
            IF i <= 2 THEN FirstCell(cells[1])[i]
            ELSE Strip(cells[i - 1].innerText)]

NonEmptyString(field) == field # ""
NonEmptyRow(rowData) == Len(rowData) > 0

\* Lines 132-180: what page.evaluate returns
Evaluate(dom) ==
    [headers |-> SelectSeq(dom.fields, NonEmptyString),
     rows |-> SelectSeq([r \in 1..Len(dom.rows) |-> RowData(dom.rows[r])],
                        NonEmptyRow)]

\* Lines 187-191
ReconcileHeaders(headers) ==
    IF headers # <<>> /\ Lower(headers[1]) \in {"ticker", "symbol"}
    THEN <<"Ticker", "Company Name">> \o Tail(headers)
    ELSE headers

\* Line 196: max(len(row) for row in rows_data), rows_data not empty
MaxWidth(rows_data) ==
    CHOOSE n \in {Len(rows_data[r]) : r \in 1..Len(rows_data)} :
        \A r \in 1..Len(rows_data) : Len(rows_data[r]) <= n

\* f'Column_{i}'
ColumnName(i) == "Column_" \o ToString(i)

\* Lines 199-202
FitHeaders(headers_adj, max_cols) ==
    IF Len(headers_adj) < max_cols
    THEN headers_adj \o [k \in 1..(max_cols - Len(headers_adj)) |->
                            ColumnName(Len(headers_adj) + k - 1)]
    ELSE SubSeq(headers_adj, 1, max_cols)

\* Line 205: row + [''] * (max_cols - len(row)). The variant leaves the row.
PadRow_AsIs(row, max_cols) == row

PadRow(row, max_cols) ==
    row \o [k \in 1..(max_cols - Len(row)) |-> <<>>]

\* The locals before the call and after a call that raised before setting them
NoLocals ==
    [headers |-> <<>>, rows_data |-> <<>>, reconciled |-> <<>>,
     built |-> EmptyFrame, raised |-> FALSE]

\* Lines 127-221. evaluate_raises: page.evaluate raised. The result is the
\* locals and `ret`, the DataFrame returned.
extract_table_data_fast(dom, evaluate_raises) ==
    IF evaluate_raises
    THEN [locals |-> [NoLocals EXCEPT !.raised = TRUE], ret |-> EmptyFrame]
    ELSE
    LET table_data == Evaluate(dom)
        headers == table_data.headers
        rows_data == table_data.rows
        reconciled == ReconcileHeaders(headers)
    IN  IF reconciled # <<>> /\ rows_data # <<>>
        THEN LET max_cols == MaxWidth(rows_data)
                 headers_adj == FitHeaders(reconciled, max_cols)
                 rows_padded == [r \in 1..Len(rows_data) |->
                                    PadRow(rows_data[r], max_cols)]
                 built == [cols |-> headers_adj, rows |-> rows_padded]
                 split == IF Named(headers_adj, "Ticker") # {}
                          THEN split_ticker_column(built)
                          ELSE built
             IN  [locals |-> [headers |-> headers, rows_data |-> rows_data,
                              reconciled |-> reconciled, built |-> built,
                              raised |-> (split = Raised)],
                  ret |-> IF split = Raised THEN EmptyFrame ELSE split]
        ELSE [locals |-> [headers |-> headers, rows_data |-> rows_data,
                          reconciled |-> reconciled, built |-> EmptyFrame,
                          raised |-> FALSE],
              ret |-> EmptyFrame]

----------------------------------------------------------------------------
(* format_excel_professionally: numbers, cells, the sheet *)

Digits == {"0", "1", "2", "3", "4", "5", "6", "7", "8", "9"}

DigitValue(c) ==
    CASE c = "0" -> 0 [] c = "1" -> 1 [] c = "2" -> 2 [] c = "3" -> 3
      [] c = "4" -> 4 [] c = "5" -> 5 [] c = "6" -> 6 [] c = "7" -> 7
      [] c = "8" -> 8 [] c = "9" -> 9

\* The number a run of decimal digits writes
RECURSIVE IntOf(_)
IntOf(ds) ==
    IF ds = <<>> THEN 0
    ELSE IntOf(SubSeq(ds, 1, Len(ds) - 1)) * 10 + DigitValue(ds[Len(ds)])

\* Fraction digits without the zeros at the end
RECURSIVE DropZeros(_)
DropZeros(ds) ==
    IF ds # <<>> /\ ds[Len(ds)] = "0"
    THEN DropZeros(SubSeq(ds, 1, Len(ds) - 1))
    ELSE ds

\* ch in s
Contains(s, ch) == \E i \in 1..Len(s) : s[i] = ch

\* s.replace(ch, '')
RECURSIVE Remove(_, _)
Remove(s, ch) ==
    IF s = <<>> THEN <<>>
    ELSE IF s[1] = ch THEN Remove(Tail(s), ch)
    ELSE <<s[1]>> \o Remove(Tail(s), ch)

\* str.isdigit()
IsDigit(s) == s # <<>> /\ \A i \in 1..Len(s) : s[i] \in Digits

\* The values of a cell: None, a str, a float. A float is kept as a decimal
\* number: sign, integer part, fraction digits (binary rounding is left out).
NoneValue ==
    [kind |-> "none", text |-> <<>>, neg |-> FALSE, ip |-> 0, frac |-> <<>>]

Str(text) ==
    [kind |-> "str", text |-> text, neg |-> FALSE, ip |-> 0, frac |-> <<>>]

Float(neg, ip, frac) ==
    [kind |-> "float", text |-> <<>>,
     neg |-> neg /\ ~(ip = 0 /\ DropZeros(frac) = <<>>),
     ip |-> ip, frac |-> DropZeros(frac)]

\* float(s) raised ValueError
ValueError ==
    [kind |-> "error", text |-> <<>>, neg |-> FALSE, ip |-> 0, frac |-> <<>>]

\* float(s) for a text of digits, signs, points, blanks and characters that no
\* number has: blanks around are dropped, then a sign, then digits with at
\* most one point and at least one digit.
float(s) ==
    LET t == Strip(s)
        signed == t # <<>> /\ t[1] \in {"+", "-"}
        body == IF signed THEN Tail(t) ELSE t
        points == {i \in 1..Len(body) : body[i] = "."}
    IN  IF /\ \A i \in 1..Len(body) : body[i] \in Digits \cup {"."}
           /\ \E i \in 1..Len(body) : body[i] \in Digits
           /\ Cardinality(points) <= 1
        THEN LET p == IF points = {} THEN Len(body) + 1
                      ELSE CHOOSE i \in points : TRUE
             IN  Float(signed /\ t[1] = "-",
                       IntOf(SubSeq(body, 1, p - 1)),
                       SubSeq(body, p + 1, Len(body)))
        ELSE ValueError

\* num / 100
Div100(num) ==
    Float(num.neg, num.ip \div 100,
          <<CHOOSE d \in Digits : DigitValue(d) = (num.ip % 100) \div 10,
            CHOOSE d \in Digits : DigitValue(d) = num.ip % 10>> \o num.frac)

\* Lines 386-394: the format by abs(num). The variant takes more than each
\* threshold.
CurrencyFormat_Above(num) ==
    IF num.ip > 1000000000 THEN "$#,##0.00,,\"B\""
    ELSE IF num.ip > 1000000 THEN "$#,##0.00,\"M\""
    ELSE IF num.ip > 1000 THEN "$#,##0.00,\"K\""
    ELSE "$#,##0.00"

CurrencyFormat(num) ==
    IF num.ip >= 1000000000 THEN "$#,##0.00,,\"B\""
    ELSE IF num.ip >= 1000000 THEN "$#,##0.00,\"M\""
    ELSE IF num.ip >= 1000 THEN "$#,##0.00,\"K\""
    ELSE "$#,##0.00"

\* A cell as load_workbook gives it; `path` is the branch of lines 359-419
\* that the cell took
NewCell(value) ==
    [value |-> value, number_format |-> "General", horizontal |-> "general",
     border |-> "none", bold |-> FALSE, path |-> "none"]

\* Line 380: the test of the currency branch, which the branch of lines
\* 408-415 repeats
NumberLike(cell_value) ==
    IsDigit(Remove(Remove(Remove(Remove(cell_value, ","), "."), "-"), "+"))

\* Line 365: `if col_idx <= 2`, the columns of the ticker and the company
\* name. The variant skips the first column only.
SkippedColumn_FirstOnly(col_idx) == col_idx <= 1

SkippedColumn(col_idx) == col_idx <= 2

\* Lines 356-419: one data cell
FormatCell(col_idx, cell) ==
    LET bordered == [cell EXCEPT !.border = "thin"]
        cell_value == Strip(cell.value.text)
    IN
    IF cell.value = NoneValue \/ cell.value = Str(<<>>)
    THEN [bordered EXCEPT !.path = "empty"]
    ELSE IF SkippedColumn(col_idx)
    THEN [bordered EXCEPT !.horizontal = "left", !.path = "first_two"]
    ELSE IF Contains(cell_value, "%")
    THEN LET num == float(Remove(Remove(cell_value, "%"), ",")) IN
         IF num # ValueError
         THEN [bordered EXCEPT !.value = Div100(num),
                               !.number_format = "0.00%",
                               !.horizontal = "right", !.path = "percent"]
         ELSE [bordered EXCEPT !.horizontal = "right",
                               !.path = "percent_failed"]
    ELSE IF Contains(cell_value, "$") \/ NumberLike(cell_value)
    THEN LET num == float(Remove(Remove(Remove(cell_value, "$"), ","), "+"))
             again == float(Remove(Remove(cell_value, ","), "+"))
         IN  IF num # ValueError
             THEN [bordered EXCEPT !.value = num,
                                   !.number_format = CurrencyFormat(num),
                                   !.horizontal = "right",
                                   !.path = "currency"]
             ELSE IF again # ValueError
             THEN [bordered EXCEPT !.value = again,
                                   !.number_format = "#,##0.00",
                                   !.horizontal = "right",
                                   !.path = "currency_as_number"]
             ELSE [bordered EXCEPT !.horizontal = "left",
                                   !.path = "currency_failed"]
    ELSE IF NumberLike(cell_value)
    THEN LET num == float(Remove(Remove(cell_value, ","), "+")) IN
         IF num # ValueError
         THEN [bordered EXCEPT !.value = num,
                               !.number_format = "#,##0.00",
                               !.horizontal = "right", !.path = "number"]
         ELSE [bordered EXCEPT !.horizontal = "left",
                               !.path = "number_failed"]
    ELSE [bordered EXCEPT !.horizontal = "left", !.path = "text"]

\* Lines 334-338: a cell of the header row
FormatHeaderCell(cell) ==
    [cell EXCEPT !.horizontal = "center", !.border = "thin", !.bold = TRUE]

\* Lines 341-353: the width of column c, from the values before formatting
ColumnWidth(sheet, c) ==
    LET cells == {sheet.header[c]} \cup
                 {sheet.data[r][c] : r \in 1..Len(sheet.data)}
        lengths == {Len(cell.value.text) : cell \in cells} \cup {0}
        max_length == CHOOSE n \in lengths : \A m \in lengths : m <= n
    IN  IF max_length + 2 < 50 THEN max_length + 2 ELSE 50

\* No sheet
NoSheet ==
    [header |-> <<>>, data |-> <<>>, width |-> <<>>, freeze_panes |-> "",
     auto_filter |-> FALSE, header_height |-> 0]

\* A sheet as save_to_excel wrote it: the header row and the data rows
NewSheet(header, data) ==
    [header |-> [c \in 1..Len(header) |-> NewCell(header[c])],
     data |-> [r \in 1..Len(data) |->
                 [c \in 1..Len(data[r]) |-> NewCell(data[r][c])]],
     width |-> [c \in 1..Len(header) |-> 0],
     freeze_panes |-> "", auto_filter |-> FALSE, header_height |-> 0]

\* Lines 329-430: one sheet of the workbook
format_excel_professionally(sheet) ==
    [header |-> [c \in 1..Len(sheet.header) |->
                    FormatHeaderCell(sheet.header[c])],
     data |-> [r \in 1..Len(sheet.data) |->
                 [c \in 1..Len(sheet.data[r]) |->
                     FormatCell(c, sheet.data[r][c])]],
     width |-> [c \in 1..Len(sheet.header) |-> ColumnWidth(sheet, c)],
     freeze_panes |-> "A2",
     auto_filter |-> (Len(sheet.data) + 1 > 1),
     header_height |-> 25]

----------------------------------------------------------------------------
(* scrape_tab and scrape_all_tabs *)

\* Lines 289-299
Tabs == <<"Overview", "Performance", "Valuation", "Dividends",
          "Profitability", "Income Statement", "Balance Sheet", "Cash Flow",
          "Technicals">>

NumTabs == Len(Tabs)

EmptyDict == [n \in {} |-> "none"]

\* all_data[tab_name] = df
Put(d, k, v) == [n \in DOMAIN d \cup {k} |-> IF n = k THEN v ELSE d[n]]

\* Lines 272-275: `if not await self.click_tab(...): return pd.DataFrame()`.
\* The variant goes on whatever click_tab returns.
AfterClickTab_Ignores(clicked) == "load_all_rows"

AfterClickTab(clicked) == IF clicked THEN "load_all_rows" ELSE "return"

\* The DataFrame of a tab as scrape_all_tabs holds it: `df.empty` or not
FrameKind(frame) == IF frame.rows = <<>> THEN "empty" ELSE "data"

\* What a call of extract_table_data_fast met: a fault (the read or the
\* building of the table raised), no header or no row, or a table
ExtractMet(result) ==
    IF result.locals.raised THEN "raised"
    ELSE IF result.locals.reconciled = <<>> \/ result.locals.rows_data = <<>>
    THEN "nothing"
    ELSE "table"

\* Line 276: what is raised inside extract_table_data_fast is caught there
\* (lines 217-221) and scrape_tab goes on to its return. The variant lets it
\* out, to the handler of run().
AfterExtract_Propagates(raised) == IF raised THEN "handler" ELSE "store"

AfterExtract(raised) == "store"

\* The tables a tab of the run shows, of as many rows as the page has: no
\* header, headers that give a table, headers whose table the ticker split
\* cannot be applied to; rows without cells, rows of three cells
RunFieldLists ==
    {<<>>, <<"symbol", "Ticker">>, <<"Price", "Ticker", "Ticker">>}

RunRowCells ==
    {<<>>,
     <<[symbol |-> <<"A","B">>, desc |-> <<"C","d">>,
        innerText |-> <<"A","B","\n","C","d">>],
       [symbol |-> Null, desc |-> Null, innerText |-> <<"1">>],
       [symbol |-> Null, desc |-> Null, innerText |-> <<"2">>]>>}

RunDoms(shown) ==
    { [fields |-> fields, rows |-> [r \in 1..shown |-> cells]] :
        fields \in RunFieldLists, cells \in RunRowCells }

\* Lines 272-275: click_tab (True, or False on any exception) and, on True, the
\* call of load_all_rows. A tab that opens renders its own rows.
TabClick ==
    /\ run_pc = "scrape_all_tabs"
    /\ tab_pc = "click_tab"
    /\ \E clicked \in BOOLEAN, shown \in 0..MaxRows :
          LET to == AfterClickTab(clicked) IN
          /\ tab_trace' = [tab_trace EXCEPT
                              !.clicked = IF clicked THEN "ok" ELSE "failed",
                              !.paginated = (to = "load_all_rows")]
          /\ row_count' = IF clicked THEN shown ELSE row_count
          /\ IF to = "load_all_rows"
             THEN /\ lar_pc' = "entry"
                  /\ is_first_tab' = (idx = 0)
                  /\ tab_pc' = "load_all_rows"
                  /\ df' = df
             ELSE /\ tab_pc' = "store"
                  /\ df' = "empty"
                  /\ UNCHANGED <<lar_pc, is_first_tab>>
    /\ last_step' = "click_tab"
    /\ UNCHANGED <<current_count, clicks, consecutive_failures,
                   total_rows_loaded, last_outcome, lar_exit, lar_ret,
                   handleVars, run_pc, close_calls, last_close, escaped, idx,
                   all_data, pureVars>>

\* Line 276: extract_table_data_fast, once load_all_rows has returned; the
\* locals of load_all_rows are gone.
TabExtract ==
    /\ run_pc = "scrape_all_tabs"
    /\ tab_pc = "load_all_rows"
    /\ lar_pc = "returned"
    /\ \E evaluate_raises \in BOOLEAN, dom \in RunDoms(row_count) :
          LET result == extract_table_data_fast(dom, evaluate_raises)
              to == AfterExtract(result.locals.raised)
          IN  /\ df' = FrameKind(result.ret)
              /\ tab_trace' = [tab_trace EXCEPT !.extracted = TRUE,
                                                !.met = ExtractMet(result)]
              /\ tab_pc' = IF to = "store" THEN "store" ELSE tab_pc
              /\ run_pc' = IF to = "store" THEN run_pc ELSE "handler"
    /\ lar_pc' = "idle"
    /\ current_count' = 0
    /\ last_outcome' = ""
    /\ clicks' = 0
    /\ consecutive_failures' = 0
    /\ lar_exit' = ""
    /\ lar_ret' = 0
    /\ last_step' = "extract"
    /\ UNCHANGED <<is_first_tab, total_rows_loaded, row_count, handleVars,
                   close_calls, last_close, escaped, idx, all_data, pureVars>>

\* Lines 303-309: `all_data[tab_name] = df`, then the next tab or the return
TabStore ==
    /\ run_pc = "scrape_all_tabs"
    /\ tab_pc = "store"
    /\ all_data' = Put(all_data, Tabs[idx + 1], df)
    /\ idx' = idx + 1
    /\ df' = "none"
    /\ tab_trace' = NoTrace
    /\ IF idx + 1 < NumTabs
       THEN tab_pc' = "click_tab" /\ run_pc' = run_pc
       ELSE tab_pc' = "idle" /\ run_pc' = "save"
    /\ last_step' = "store"
    /\ UNCHANGED <<pageVars, handleVars, close_calls,
                   last_close, escaped,
                   pureVars>>

----------------------------------------------------------------------------
(* run *)

\* Lines 456-476: a step of the try block that raises goes to the handler.
AfterStep(ok, next) == IF ok THEN next ELSE "handler"

\* Lines 473-478: after `except Exception` comes `finally`. The variant is a
\* close() written as the last statement of the try block.
AfterHandler_SkipsClose == "done"

AfterHandler == "finally"

\* Line 457: await self.start()
RunStart ==
    /\ run_pc = "start"
    /\ \E outcome \in StartOutcomes :
          /\ playwright' = StartSets(outcome).playwright
          /\ browser' = StartSets(outcome).browser
          /\ page' = StartSets(outcome).page
          /\ live' = StartRuns(outcome)
          /\ run_pc' = AfterStep(outcome = "ok", "load_page")
    /\ last_step' = "start"
    /\ UNCHANGED <<close_calls, last_close, escaped, pageVars, tabVars, pureVars>>

\* Line 458: await self.load_page(); the page shows its first rows.
RunLoadPage ==
    /\ run_pc = "load_page"
    /\ \E ok \in BOOLEAN, shown \in 0..MaxRows :
          /\ run_pc' = AfterStep(ok, "scrape_all_tabs")
          /\ row_count' = IF ok THEN shown ELSE row_count
          /\ tab_pc' = IF ok THEN "click_tab" ELSE tab_pc
    /\ last_step' = "load_page"
    /\ UNCHANGED <<lar_pc, is_first_tab, current_count, clicks,
                   consecutive_failures, total_rows_loaded, last_outcome,
                   lar_exit, lar_ret,
                   handleVars, close_calls, last_close, escaped, idx,
                   all_data, df, tab_trace, pureVars>>

\* Line 459, inside scrape_tab: load_all_rows on a page that appends at least
\* one row per activation.
RunLoadEnter ==
    /\ run_pc = "scrape_all_tabs"
    /\ \E count_raises \in BOOLEAN : LoadEnter(count_raises)
    /\ last_step' = "load_all_rows"
    /\ UNCHANGED <<handleVars, run_pc, close_calls, last_close,
                   escaped, tabVars, pureVars>>

RunLoadStep ==
    /\ run_pc = "scrape_all_tabs"
    /\ LoadStep(1..MaxRows, 0..MaxRows)
    /\ last_step' = "load_all_rows"
    /\ UNCHANGED <<handleVars, run_pc, close_calls, last_close,
                   escaped, tabVars, pureVars>>

RunLoadFinish ==
    /\ run_pc = "scrape_all_tabs"
    /\ \E count_raises \in BOOLEAN : LoadFinish(count_raises)
    /\ last_step' = "load_all_rows"
    /\ UNCHANGED <<handleVars, run_pc, close_calls, last_close,
                   escaped, tabVars, pureVars>>

\* Lines 460-471: save_to_excel (the write, then format_excel_professionally)
\* and the report
RunSave ==
    /\ run_pc = "save"
    /\ \E outcome \in {"ok", "write_fails", "format_fails"} :
          run_pc' = AfterStep(outcome = "ok", "finally")
    /\ last_step' = "save_to_excel"
    /\ UNCHANGED <<handleVars, close_calls, last_close,
                   escaped, pageVars, tabVars, pureVars>>

\* Lines 473-476: except Exception: the failure is printed
RunHandler ==
    /\ run_pc = "handler"
    /\ run_pc' = AfterHandler
    /\ last_step' = "handler"
    /\ UNCHANGED <<handleVars, close_calls, last_close,
                   escaped, pageVars, tabVars, pureVars>>

\* Lines 477-478: finally: await self.close()
RunClose ==
    /\ run_pc = "finally"
    /\ \E browser_fails \in BOOLEAN, stop_fails \in BOOLEAN :
          Close(browser_fails, stop_fails)
    /\ run_pc' = "done"
    /\ UNCHANGED <<pageVars, tabVars, pureVars>>

----------------------------------------------------------------------------
(* The parts at rest: the values a part keeps in a specification that does not
   drive it *)

PageAtRest ==
    /\ lar_pc = "idle"
    /\ is_first_tab = FALSE
    /\ current_count = 0
    /\ last_outcome = ""
    /\ clicks = 0
    /\ consecutive_failures = 0
    /\ total_rows_loaded = 0
    /\ row_count = 0
    /\ lar_exit = ""
    /\ lar_ret = 0

SessionAtRest ==
    /\ playwright = FALSE
    /\ browser = FALSE
    /\ page = FALSE
    /\ live = [browser |-> FALSE, engine |-> FALSE]
    /\ run_pc = "idle"
    /\ last_step = ""
    /\ close_calls = 0
    /\ last_close = NoClose
    /\ escaped = FALSE

TickerAtRest ==
    /\ ticker_text = <<>>
    /\ ticker_parts = <<>>

SplitAtRest ==
    /\ split_pc = "idle"
    /\ split_in = EmptyFrame
    /\ split_once = EmptyFrame
    /\ split_twice = EmptyFrame

ExtractAtRest ==
    /\ ext_pc = "idle"
    /\ ext_dom = [fields |-> <<>>, rows |-> <<>>]
    /\ ext_locals = NoLocals
    /\ ext_ret = EmptyFrame

FormatAtRest ==
    /\ fmt_pc = "idle"
    /\ fmt_in = NoSheet
    /\ fmt_sheet = NoSheet

PureAtRest ==
    /\ TickerAtRest
    /\ SplitAtRest
    /\ ExtractAtRest
    /\ FormatAtRest

TabsAtRest ==
    /\ idx = 0
    /\ tab_pc = "idle"
    /\ all_data = EmptyDict
    /\ df = "none"
    /\ tab_trace = NoTrace

----------------------------------------------------------------------------
(* SpecPaginate: one call of load_all_rows, for either value of is_first_tab,
   any cumulative maximum and any page *)

\* The row counts of a page: the small ones, and the ones at and just under
\* twenty rows, where 95% and the whole differ
PageSizes == 0..MaxRows \cup {18, 19, 20}

InitPaginate ==
    /\ lar_pc = "entry"
    /\ is_first_tab \in BOOLEAN
    /\ current_count = 0
    /\ last_outcome = ""
    /\ clicks = 0
    /\ consecutive_failures = 0
    /\ total_rows_loaded \in PageSizes
    /\ row_count \in PageSizes
    /\ lar_exit = ""
    /\ lar_ret = 0
    /\ SessionAtRest
    /\ TabsAtRest
    /\ PureAtRest

PagEnter ==
    /\ \E count_raises \in BOOLEAN : LoadEnter(count_raises)
    /\ UNCHANGED <<sessionVars, tabVars, pureVars>>

\* The page may answer in any way: an activation may append no row at all.
PagStep ==
    /\ LoadStep(0..MaxRows, PageSizes)
    /\ UNCHANGED <<sessionVars, tabVars, pureVars>>

PagFinish ==
    /\ \E count_raises \in BOOLEAN : LoadFinish(count_raises)
    /\ UNCHANGED <<sessionVars, tabVars, pureVars>>

NextPaginate == PagEnter \/ PagStep \/ PagFinish

SpecPaginate == InitPaginate /\ [][NextPaginate]_vars

\* The event loop resumes the coroutine after every await, and every await of
\* the loop ends (with its result or its timeout): the call keeps stepping.
SpecPaginateFair == SpecPaginate /\ WF_vars(NextPaginate)

----------------------------------------------------------------------------
(* SpecRun: one execution of run() *)

InitRun ==
    /\ PageAtRest
    /\ TabsAtRest
    /\ PureAtRest
    /\ playwright = FALSE
    /\ browser = FALSE
    /\ page = FALSE
    /\ live = [browser |-> FALSE, engine |-> FALSE]
    /\ run_pc = "start"
    /\ last_step = ""
    /\ close_calls = 0
    /\ last_close = NoClose
    /\ escaped = FALSE

NextRun ==
    \/ RunStart
    \/ RunLoadPage
    \/ TabClick
    \/ RunLoadEnter
    \/ RunLoadStep
    \/ RunLoadFinish
    \/ TabExtract
    \/ TabStore
    \/ RunSave
    \/ RunHandler
    \/ RunClose

SpecRun == InitRun /\ [][NextRun]_vars

----------------------------------------------------------------------------
(* SpecSession: a caller that calls start() and then load_page(), each at
   most once, and close() at any time, any number of times up to MaxCloses *)

InitSession ==
    /\ PageAtRest
    /\ TabsAtRest
    /\ SessionAtRest
    /\ PureAtRest

SessStart ==
    /\ run_pc = "idle"
    /\ \E outcome \in StartOutcomes :
          /\ playwright' = StartSets(outcome).playwright
          /\ browser' = StartSets(outcome).browser
          /\ page' = StartSets(outcome).page
          /\ live' = StartRuns(outcome)
    /\ run_pc' = "started"
    /\ last_step' = "start"
    /\ UNCHANGED <<close_calls, last_close, escaped, pageVars, tabVars, pureVars>>

\* load_page() after start(): it raises when there is no page or no browser
\* runs, or when the navigation fails; else the page shows its first rows.
SessLoadPage ==
    /\ run_pc = "started"
    /\ \E ok \in BOOLEAN, shown \in 0..MaxRows :
          /\ ok => page /\ live.browser
          /\ row_count' = IF ok THEN shown ELSE row_count
    /\ run_pc' = "loaded"
    /\ last_step' = "load_page"
    /\ UNCHANGED <<lar_pc, is_first_tab, current_count, clicks,
                   consecutive_failures, total_rows_loaded, last_outcome,
                   lar_exit, lar_ret, handleVars, close_calls, last_close,
                   escaped, tabVars, pureVars>>

SessClose ==
    /\ close_calls < MaxCloses
    /\ \E browser_fails \in BOOLEAN, stop_fails \in BOOLEAN :
          Close(browser_fails, stop_fails)
    /\ UNCHANGED <<run_pc, pageVars, tabVars, pureVars>>

NextSession == SessStart \/ SessLoadPage \/ SessClose

SpecSession == InitSession /\ [][NextSession]_vars

----------------------------------------------------------------------------
(* SpecTicker: extract_ticker_parts on one text *)

\* An uppercase and a lowercase letter, a digit, the space and the newline
TextAlphabet == {"A", "a", "1", " ", "\n"}

RECURSIVE TextsOfLen(_)
TextsOfLen(n) ==
    IF n = 0 THEN {<<>>}
    ELSE {<<c>> \o t : c \in TextAlphabet, t \in TextsOfLen(n - 1)}

Texts == UNION {TextsOfLen(n) : n \in 0..MaxTextLen}

\* "AAPL\nApple Inc.", "MSFT", "AAPL Apple Inc.", "ABCDEF Co", "AT&T",
\* "AAAA A", "AAAAAA", " AAAAA ", a missing value
TickerExamples ==
    { <<"A","A","P","L","\n","A","p","p","l","e"," ","I","n","c",".">>,
      <<"M","S","F","T">>,
      <<"A","A","P","L"," ","A","p","p","l","e"," ","I","n","c",".">>,
      <<"A","B","C","D","E","F"," ","C","o">>,
      <<"A","T","&","T">>,
      <<"A","A","A","A"," ","A">>,
      <<"A","A","A","A","A","A">>,
      <<" ","A","A","A","A","A"," ">>,
      NaN }

InitTicker ==
    /\ PageAtRest
    /\ SessionAtRest
    /\ TabsAtRest
    /\ ticker_text \in Texts \cup TickerExamples
    /\ ticker_parts = <<>>
    /\ SplitAtRest
    /\ ExtractAtRest
    /\ FormatAtRest

TickerApply ==
    /\ ticker_parts = <<>>
    /\ ticker_parts' = extract_ticker_parts(ticker_text)
    /\ UNCHANGED <<ticker_text, splitVars, extractVars, formatVars, pageVars,
                   sessionVars, tabVars>>

NextTicker == TickerApply

SpecTicker == InitTicker /\ [][NextTicker]_vars

----------------------------------------------------------------------------
(* SpecSplit: split_ticker_column on a DataFrame with a Ticker column, then on
   what it returned *)

\* The column lists tried: with and without Company Name, Ticker first or
\* not, names repeated
SplitColumnLists ==
    { <<"Ticker">>,
      <<"Ticker", "Price">>,
      <<"Price", "Ticker">>,
      <<"Ticker", "Company Name">>,
      <<"Company Name", "Ticker">>,
      <<"Ticker", "Company Name", "Price">>,
      <<"Price", "Ticker", "Company Name">>,
      <<"Ticker", "Ticker">>,
      <<"Ticker", "Ticker", "Company Name">>,
      <<"Ticker", "Company Name", "Company Name">> }

\* The cells tried in a column of the name: "AB cd", NaN for
\* a Ticker; NaN, '', "Xy" for a Company Name
SplitCells(name) ==
    CASE name = "Ticker" ->
            { <<"A","B"," ","c","d">>, NaN }
      [] name = "Company Name" -> { NaN, <<>>, <<"X","y">> }
      [] OTHER -> { <<"9">> }

AllSplitCells ==
    SplitCells("Ticker") \cup SplitCells("Company Name") \cup SplitCells("Price")

SplitRowsOf(cols) ==
    {row \in [1..Len(cols) -> AllSplitCells] :
        \A c \in 1..Len(cols) : row[c] \in SplitCells(cols[c])}

\* A frame with two Ticker columns is given with at least one row.
MinSplitRows(cols) == IF Cardinality(Named(cols, "Ticker")) >= 2 THEN 1 ELSE 0

SplitFrames ==
    UNION { { [cols |-> cols, rows |-> rows] :
                rows \in UNION { [1..n -> SplitRowsOf(cols)] :
                                   n \in MinSplitRows(cols)..MaxSplitRows } }
            : cols \in SplitColumnLists }

InitSplit ==
    /\ PageAtRest
    /\ SessionAtRest
    /\ TabsAtRest
    /\ TickerAtRest
    /\ split_pc = "start"
    /\ split_in \in SplitFrames
    /\ split_once = EmptyFrame
    /\ split_twice = EmptyFrame
    /\ ExtractAtRest
    /\ FormatAtRest

SplitFirst ==
    /\ split_pc = "start"
    /\ split_once' = split_ticker_column(split_in)
    /\ split_pc' = IF split_once' = Raised THEN "raised" ELSE "once"
    /\ UNCHANGED <<split_in, split_twice, tickerVars, extractVars, formatVars,
                   pageVars, sessionVars, tabVars>>

SplitSecond ==
    /\ split_pc = "once"
    /\ split_twice' = split_ticker_column(split_once)
    /\ split_pc' = "twice"
    /\ UNCHANGED <<split_in, split_once, tickerVars, extractVars, formatVars,
                   pageVars, sessionVars, tabVars>>

NextSplit == SplitFirst \/ SplitSecond

SpecSplit == InitSplit /\ [][NextSplit]_vars

----------------------------------------------------------------------------
(* SpecExtract: extract_table_data_fast on a page whose table has up to
   MaxFields header cells and rows of up to MaxCells cells *)

\* data-field of the first header cell, and of the ones after it
FirstFields == {"symbol", "Symbol", "ticker", "TICKER", "Ticker", "Price", ""}
RestFields == {"Ticker", "Company Name"}

FieldLists ==
    {<<>>} \cup
    UNION { { <<first>> \o rest : first \in FirstFields,
                                  rest \in [1..n -> RestFields] }
            : n \in 0..(MaxFields - 1) }

\* The first cell of a row: with both elements, with one, with none (the
\* text on several lines, and 'AAPL Apple Inc.' on one)
FirstCells ==
    { [symbol |-> <<" ","A","B">>, desc |-> <<"C","d"," ">>,
       innerText |-> <<"A","B","\n","C","d">>],
      [symbol |-> <<"A","B">>, desc |-> Null,
       innerText |-> <<"A","B"," ","C","d">>],
      [symbol |-> Null, desc |-> Null,
       innerText |-> <<" ","A","B","\n","C","\n","d">>],
      [symbol |-> Null, desc |-> Null,
       innerText |-> <<"A","A","P","L"," ","A","p","p","l","e"," ",
                       "I","n","c",".">>] }

OtherCell == [symbol |-> Null, desc |-> Null, innerText |-> <<" ","1">>]

DomRows ==
    {<<>>} \cup
    UNION { { <<first>> \o [k \in 1..n |-> OtherCell] : first \in FirstCells }
            : n \in 0..(MaxCells - 1) }

Doms ==
    { [fields |-> fields, rows |-> rows] :
        fields \in FieldLists,
        rows \in UNION { [1..n -> DomRows] : n \in 0..2 } }

InitExtract ==
    /\ PageAtRest
    /\ SessionAtRest
    /\ TabsAtRest
    /\ TickerAtRest
    /\ SplitAtRest
    /\ ext_pc = "start"
    /\ ext_dom \in Doms
    /\ ext_locals = NoLocals
    /\ ext_ret = EmptyFrame
    /\ FormatAtRest

Extract ==
    /\ ext_pc = "start"
    /\ \E evaluate_raises \in BOOLEAN :
          LET result == extract_table_data_fast(ext_dom, evaluate_raises) IN
          /\ ext_locals' = result.locals
          /\ ext_ret' = result.ret
    /\ ext_pc' = "done"
    /\ UNCHANGED <<ext_dom, tickerVars, splitVars, formatVars, pageVars,
                   sessionVars, tabVars>>

NextExtract == Extract

SpecExtract == InitExtract /\ [][NextExtract]_vars

----------------------------------------------------------------------------
(* SpecFormat: format_excel_professionally on a sheet of three columns with
   a header row and at most one data row *)

CellAlphabet == {"0", "1", "$", ",", ".", "-", "+", "%", " ", "a"}

CellTextsOfLen(n) == [1..n -> CellAlphabet]

CellTexts == UNION {CellTextsOfLen(n) : n \in 0..MaxCellLen}

\* '$1,234,567.00', '$1,000,000', '$999,999.99', '$1,000', '$999.99',
\* '$1,000,000,000',
\* '$999,999,999', '-$2,500', '1,234', '12.5%', '$12.5%', '$abc', ' $1,000 '
CellExamples ==
    { <<"$","1",",","2","3","4",",","5","6","7",".","0","0">>,
      <<"$","1",",","0","0","0",",","0","0","0">>,
      <<"$","9","9","9",",","9","9","9",".","9","9">>,
      <<"$","1",",","0","0","0">>,
      <<"$","9","9","9",".","9","9">>,
      <<"$","1",",","0","0","0",",","0","0","0",",","0","0","0">>,
      <<"$","9","9","9",",","9","9","9",",","9","9","9">>,
      <<"-","$","2",",","5","0","0">>,
      <<"1",",","2","3","4">>,
      <<"1","2",".","5","%">>,
      <<"$","1","2",".","5","%">>,
      <<"$","a","b","c">>,
      <<" ","$","1",",","0","0","0"," ">> }

\* The first two cells of the data row: texts the later columns would format
FirstTwo ==
    { <<Str(<<"$","5">>), Str(<<"7","%">>)>>,
      <<Str(<<"A","B">>), Str(<<"7","%">>)>> }

HeaderRow == <<Str(<<"T">>), Str(<<"N">>), Str(<<"P">>)>>

Sheets ==
    {NewSheet(HeaderRow, <<>>)} \cup
    { NewSheet(HeaderRow, <<two \o <<third>>>>) :
        two \in FirstTwo,
        third \in {NoneValue} \cup {Str(t) : t \in CellTexts \cup CellExamples} }

InitFormat ==
    /\ PageAtRest
    /\ SessionAtRest
    /\ TabsAtRest
    /\ TickerAtRest
    /\ SplitAtRest
    /\ ExtractAtRest
    /\ fmt_pc = "start"
    /\ fmt_in \in Sheets
    /\ fmt_sheet = fmt_in

Format ==
    /\ fmt_pc = "start"
    /\ fmt_sheet' = format_excel_professionally(fmt_in)
    /\ fmt_pc' = "done"
    /\ UNCHANGED <<fmt_in, tickerVars, splitVars, extractVars, pageVars,
                   sessionVars, tabVars>>

NextFormat == Format

SpecFormat == InitFormat /\ [][NextFormat]_vars

----------------------------------------------------------------------------
(* Claims about load_all_rows *)

\* The ways a call ends, in the words of the state machine of the design
Exhausted == {"skip", "not_visible", "budget", "timeouts"}
Aborted == {"error"}

\* C1: in one call of load_all_rows the number of Load More activations, and
\* the click count returned, never exceeds 150, whatever the probe, the scroll
\* and the click answer.
C1_ClickBudget ==
    /\ clicks <= 150
    /\ lar_pc = "returned" => lar_ret <= 150

\* C1's case: the control stayed visible and the call used its whole budget.
C1_Witness ==
    /\ lar_pc = "returned"
    /\ lar_exit = "budget"
    /\ lar_ret = 150

\* The passes the loop can still make: each activation leaves room for one
\* timeout before the next.
LoopVariant == 2 * (max_clicks - clicks) + (2 - consecutive_failures)

\* C2: load_all_rows always terminates: whatever the page answers (timeouts
\* that alternate with activations, a control that stays visible forever),
\* the loop never runs on after two timeouts in a row, every pass that stays
\* in the loop uses up some of a bounded budget of passes (at most 301), and
\* the call returns, exhausted or aborted.
C2_Terminates ==
    /\ [](lar_pc = "loop" => consecutive_failures < 2 /\ LoopVariant >= 0)
    /\ [][lar_pc = "loop" /\ lar_pc' = "loop" => LoopVariant' < LoopVariant]_vars
    /\ <>(lar_pc = "returned" /\ lar_exit \in Exhausted \cup Aborted)

\* C2's case: a timeout, then an activation, then the loop still runs.
C2_Witness ==
    /\ lar_pc = "loop"
    /\ clicks = max_clicks - 1
    /\ consecutive_failures = 1

----------------------------------------------------------------------------
(* Claims about the tabs, run() and close() *)

AllTabNames == {Tabs[i] : i \in 1..NumTabs}

\* C3: whatever tabs fail to activate: for a tab whose click_tab fails there is
\* no pagination and no extraction, the table stored under its name is empty,
\* the next tab is activated next, no tab's failure ends the loop over the tabs
\* and scrape_all_tabs returns with an entry for each of the 9 tabs.
C3_FailedTabIsEmpty ==
    /\ [](tab_trace.clicked = "failed" =>
             /\ ~tab_trace.paginated
             /\ ~tab_trace.extracted
             /\ lar_pc = "idle"
             /\ tab_pc = "store"
             /\ df = "empty")
    /\ [][tab_trace.clicked = "failed" =>
             /\ all_data' = Put(all_data, Tabs[idx + 1], "empty")
             /\ idx' = idx + 1
             /\ idx + 1 < 9 => tab_pc' = "click_tab"]_vars
    /\ [][\A n \in DOMAIN all_data :
             n \in DOMAIN all_data' /\ all_data'[n] = all_data[n]]_vars
    /\ [][run_pc = "scrape_all_tabs" =>
             run_pc' \in {"scrape_all_tabs", "save"}]_vars
    /\ [](DOMAIN all_data = {Tabs[i] : i \in 1..idx})
    /\ [](run_pc = "save" => idx = 9 /\ DOMAIN all_data = AllTabNames)

\* C3's case: the third tab gave a table and the fourth failed to activate.
C3_Witness ==
    /\ idx = 3
    /\ all_data[Tabs[3]] = "data"
    /\ tab_trace.clicked = "failed"
    /\ tab_pc = "store"

\* C8: whichever step of run() fails, or none: run() does not stop before its
\* end, close() is called exactly once, nothing runs after it, and no
\* exception leaves run().
C8_CloseOnceAtEnd ==
    /\ close_calls <= 1
    /\ close_calls = 1 <=> run_pc = "done"
    /\ run_pc = "done" => last_step = "close" /\ ~escaped
    /\ run_pc = "done" \/ ENABLED NextRun

\* C8's case: the launch of the browser failed and run() has ended.
C8_Witness ==
    /\ run_pc = "done"
    /\ playwright
    /\ ~browser
    /\ close_calls = 1

\* C9: in every state of the session a call of close() raises nothing, attempts
\* the browser close exactly when a browser was acquired and the engine stop
\* exactly when the engine was acquired, whether or not the browser close
\* failed, also when close() was called before.
C9_CloseGuarded ==
    [][close_calls' # close_calls =>
          /\ ~last_close'.raised
          /\ ~escaped'
          /\ last_close'.browser_close_called = browser
          /\ last_close'.stop_called = playwright]_vars

\* C9's case: close() called again, the browser close failed, the engine stop
\* was attempted all the same.
C9_Witness ==
    /\ close_calls >= 2
    /\ last_close.browser_close_failed
    /\ last_close.stop_called

----------------------------------------------------------------------------
(* Claims about extract_ticker_parts *)

\* The text after the first newline of x, each further newline read as a space
AfterFirstLine(x) ==
    LET i == CHOOSE i \in 1..Len(x) :
                 x[i] = "\n" /\ \A j \in 1..(i - 1) : x[j] # "\n"
    IN  [j \in 1..(Len(x) - i) |->
            IF x[i + j] = "\n" THEN " " ELSE x[i + j]]

FirstLine(x) ==
    LET i == CHOOSE i \in 1..Len(x) :
                 x[i] = "\n" /\ \A j \in 1..(i - 1) : x[j] # "\n"
    IN  SubSeq(x, 1, i - 1)

\* C7: extract_ticker_parts applies its rules in a fixed order, the first that
\* matches deciding: an empty or missing text gives ('', ''); a text with a
\* newline gives its first line and the other lines joined by spaces; a text
\* of at most 5 characters with a cased character and no lowercase one gives
\* (text, ''); 1 to 5 letters A-Z, then whitespace, then a rest give (letters,
\* rest); any other text gives (text, ''). Texts and parts are taken without
\* the whitespace around them. 'AAPL\nApple Inc.' gives ('AAPL', 'Apple Inc.')
\* and 'MSFT' gives ('MSFT', '').
C7_TickerRules ==
    ticker_parts # <<>> =>
        LET x == ticker_text
            out == ticker_parts
            t == Strip(x)
            missing == x = NaN \/ x = <<>>
            multiline == ~missing /\ \E i \in 1..Len(x) : x[i] = "\n"
            short == /\ Len(t) <= 5
                     /\ \E i \in 1..Len(t) : t[i] \in UpperChars
                     /\ \A i \in 1..Len(t) : t[i] \notin LowerChars
            shaped == \E k \in 1..5 :
                         /\ k < Len(t)
                         /\ \A i \in 1..k : t[i] \in UpperChars
                         /\ t[k + 1] \in SpaceChars
        IN  /\ Len(out) = 2
            /\ missing => out = << <<>>, <<>> >>
            /\ multiline =>
                  out = <<Strip(FirstLine(x)), Strip(AfterFirstLine(x))>>
            /\ ~missing /\ ~multiline /\ short => out = <<t, <<>> >>
            /\ ~missing /\ ~multiline /\ ~short /\ shaped =>
                  \E k \in 1..5, m \in 1..Len(t) :
                     /\ k < m
                     /\ out[1] = SubSeq(t, 1, k)
                     /\ \A i \in (k + 1)..(m - 1) : t[i] \in SpaceChars
                     /\ out[2] = SubSeq(t, m, Len(t))
                     /\ out[2][1] \notin SpaceChars
                     /\ m > k + 1
            /\ ~missing /\ ~multiline /\ ~short /\ ~shaped =>
                  out = <<t, <<>> >>
            /\ x = <<"A","A","P","L","\n","A","p","p","l","e"," ","I","n","c",".">>
                  => out = << <<"A","A","P","L">>,
                              <<"A","p","p","l","e"," ","I","n","c",".">> >>
            /\ x = <<"M","S","F","T">> => out = << <<"M","S","F","T">>, <<>> >>

\* C7's case: a short uppercase text that also has the shape of the pattern is
\* decided by the earlier rule.
C7_Witness ==
    /\ ticker_text = <<"A", " ", "A">>
    /\ ticker_parts = << <<"A", " ", "A">>, <<>> >>

----------------------------------------------------------------------------
(* Claims about split_ticker_column *)

\* C5: split_ticker_column is idempotent: for every table with a Ticker column
\* that it returns a table for, applying it to that table returns the same
\* columns and the same cells.
C5_SplitIdempotent ==
    split_pc = "twice" => split_twice = split_once

\* C5's case: the first application inserted Company Name and split a cell,
\* the second found the column populated.
C5_Witness ==
    /\ split_pc = "twice"
    /\ split_in = [cols |-> <<"Ticker", "Price">>,
                   rows |-> << <<<<"A","B"," ","c","d">>, <<"9">>>> >>]
    /\ split_once = [cols |-> <<"Ticker", "Company Name", "Price">>,
                     rows |-> << <<<<"A","B">>, <<"c","d">>, <<"9">>>> >>]

----------------------------------------------------------------------------
(* Claims about extract_table_data_fast *)

\* 'ticker' and 'symbol' in the letter cases tried
TickerSpellings == {"symbol", "Symbol", "ticker", "TICKER", "Ticker"}

\* C6: when the first raw header is 'ticker' or 'symbol' in any letter case
\* the reconciled header list is Ticker, Company Name, then the remaining raw
\* headers in order; for any other first header (and for no header) the list
\* is the raw one.
C6_HeaderReconciliation ==
    (ext_pc = "done" /\ ~ext_locals.raised) =>
        LET headers == ext_locals.headers IN
        ext_locals.reconciled =
            IF headers # <<>> /\ headers[1] \in TickerSpellings
            THEN <<"Ticker", "Company Name">> \o
                    [k \in 1..(Len(headers) - 1) |-> headers[k + 1]]
            ELSE headers

\* C6's case: a capitalised Symbol followed by two headers.
C6_Witness ==
    /\ ext_pc = "done"
    /\ ext_locals.headers = <<"Symbol", "Ticker", "Company Name">>
    /\ ext_locals.reconciled =
          <<"Ticker", "Company Name", "Ticker", "Company Name">>

\* The widest raw row
WidestRaw ==
    CHOOSE n \in 0..(MaxCells + 1) :
        /\ \A r \in 1..Len(ext_locals.rows_data) :
              Len(ext_locals.rows_data[r]) <= n
        /\ \E r \in 1..Len(ext_locals.rows_data) :
              Len(ext_locals.rows_data[r]) = n

\* C4: with a header and a raw row, the table built at line 207 has as many
\* columns as the widest raw row has values and every row as long: each
\* row is the raw row followed by empty strings, the header list is the
\* reconciled one cut to that length or followed by Column_i, i counting
\* positions from 0. The table returned has no row longer or shorter than
\* its header list either.
C4_Rectangular ==
    /\ (ext_pc = "done" /\ ext_locals.headers # <<>>
            /\ ext_locals.rows_data # <<>>) =>
          LET built == ext_locals.built
              raw == ext_locals.rows_data
              given == ext_locals.reconciled
          IN  /\ Len(built.cols) = WidestRaw
              /\ Len(built.rows) = Len(raw)
              /\ \A r \in 1..Len(raw) :
                    /\ Len(built.rows[r]) = WidestRaw
                    /\ \A c \in 1..WidestRaw :
                          built.rows[r][c] =
                             IF c <= Len(raw[r]) THEN raw[r][c] ELSE <<>>
              /\ \A c \in 1..WidestRaw :
                    built.cols[c] =
                       IF c <= Len(given) THEN given[c]
                       ELSE "Column_" \o ToString(c - 1)
    /\ \A r \in 1..Len(ext_ret.rows) :
          Len(ext_ret.rows[r]) = Len(ext_ret.cols)

\* C4's case: one header, raw rows of two and of four values: two
\* placeholder names and two empty strings are added.
C4_Witness ==
    /\ ext_pc = "done"
    /\ ext_locals.headers = <<"Price">>
    /\ Len(ext_locals.rows_data) = 2
    /\ Len(ext_locals.rows_data[1]) = 2
    /\ Len(ext_locals.rows_data[2]) = 4
    /\ ext_locals.built.cols = <<"Price", "Column_1", "Column_2", "Column_3">>
    /\ ext_locals.built.rows[1][4] = <<>>
    /\ ext_ret = ext_locals.built

----------------------------------------------------------------------------
(* Claims about format_excel_professionally *)

\* The formats named billions, millions, thousands and plain
Billions == "$#,##0.00,,\"B\""
Millions == "$#,##0.00,\"M\""
Thousands == "$#,##0.00,\"K\""
Plain == "$#,##0.00"

\* Currency texts and the number and format each is to get
CurrencyExpected ==
    { [text |-> <<"$","1",",","2","3","4",",","5","6","7",".","0","0">>, value |-> Float(FALSE, 1234567, <<>>), format |-> Millions],
      [text |-> <<"$","1",",","0","0","0",",","0","0","0">>, value |-> Float(FALSE, 1000000, <<>>), format |-> Millions],
      [text |-> <<"$","9","9","9",",","9","9","9",".","9","9">>, value |-> Float(FALSE, 999999, <<"9","9">>),
       format |-> Thousands],
      [text |-> <<"$","1",",","0","0","0">>, value |-> Float(FALSE, 1000, <<>>), format |-> Thousands],
      [text |-> <<"$","9","9","9",".","9","9">>, value |-> Float(FALSE, 999, <<"9","9">>), format |-> Plain],
      [text |-> <<"$","1",",","0","0","0",",","0","0","0",",","0","0","0">>, value |-> Float(FALSE, 1000000000, <<>>),
       format |-> Billions],
      [text |-> <<"$","9","9","9",",","9","9","9",",","9","9","9">>, value |-> Float(FALSE, 999999999, <<>>),
       format |-> Millions],
      [text |-> <<"-","$","2",",","5","0","0">>, value |-> Float(TRUE, 2500, <<>>), format |-> Thousands],
      [text |-> <<"$","1","0">>, value |-> Float(FALSE, 10, <<>>),
       format |-> Plain],
      [text |-> <<"$",".","1">>, value |-> Float(FALSE, 0, <<"1">>),
       format |-> Plain] }

\* C10: a data cell beyond the first two columns whose text parsed as a
\* currency amount holds that number, and its format goes by the magnitude
\* alone: 1,000,000,000 and more billions, else 1,000,000 and more millions,
\* else 1000 and more thousands, else plain; '$1,234,567.00' becomes
\* 1234567.00 with the millions format.
C10_CurrencyByMagnitude ==
    fmt_pc = "done" =>
        \A r \in 1..Len(fmt_sheet.data) :
            \A c \in 3..Len(fmt_sheet.data[r]) :
                LET cell == fmt_sheet.data[r][c]
                    given == fmt_in.data[r][c].value
                IN  /\ cell.path = "currency" =>
                          /\ cell.value.kind = "float"
                          /\ cell.number_format =
                                CASE cell.value.ip >= 1000000000 -> Billions
                                  [] cell.value.ip < 1000000000
                                        /\ cell.value.ip >= 1000000 -> Millions
                                  [] cell.value.ip < 1000000
                                        /\ cell.value.ip >= 1000 -> Thousands
                                  [] cell.value.ip < 1000 -> Plain
                    /\ \A e \in CurrencyExpected :
                          given = Str(e.text) =>
                              /\ cell.value = e.value
                              /\ cell.number_format = e.format

\* C10's case: '$1,234,567.00' in the third column became 1234567 with the
\* millions format.
C10_Witness ==
    /\ fmt_pc = "done"
    /\ Len(fmt_in.data) = 1
    /\ fmt_in.data[1][3].value = Str(<<"$","1",",","2","3","4",",","5","6","7",".","0","0">>)
    /\ fmt_sheet.data[1][3].value = Float(FALSE, 1234567, <<>>)
    /\ fmt_sheet.data[1][3].number_format = "$#,##0.00,\"M\""

----------------------------------------------------------------------------
(* Claims about the skip rule, the cumulative maximum and the failures of the
   loading loop *)

\* C11: on the first tab the count is not sampled and the loop is entered
\* whatever the page shows; on another tab the count sampled at entry (the
\* page's, or 0 when the sampling fails) decides: at 95% of the cumulative
\* maximum or more the call returns 0 with no activation, below 95% the
\* loop is entered.
C11_SkipRule ==
    [][lar_pc = "entry" =>
          IF is_first_tab
          THEN lar_pc' = "loop" /\ current_count' = current_count
          ELSE /\ current_count' \in {row_count, 0}
               /\ IF current_count' * 100 >= total_rows_loaded * 95
                  THEN /\ lar_pc' = "returned"
                       /\ lar_exit' = "skip"
                       /\ lar_ret' = 0
                       /\ clicks' = 0
                       /\ row_count' = row_count
                  ELSE lar_pc' = "loop" /\ lar_exit' = ""]_vars

\* C11's case: 19 rows against a maximum of 20 are skipped.
C11_Witness ==
    /\ lar_pc = "returned"
    /\ lar_exit = "skip"
    /\ ~is_first_tab
    /\ current_count = 19
    /\ total_rows_loaded = 20

\* C12: once load_all_rows has returned, by whichever path, the cumulative
\* maximum is at least the row count the page shows, and a step never
\* lowers the maximum. The return of line 86 leaves the maximum as it was,
\* below the rows of a page that has more (always when the maximum is 0),
\* and a final sample that fails counts 0 rows: the first part does not hold.
C12_MaxCoversPage ==
    /\ [](lar_pc = "returned" => total_rows_loaded >= row_count)
    /\ [][total_rows_loaded' >= total_rows_loaded]_vars

\* The passes of the loop that met a timeout
TimeoutPass ==
    /\ lar_pc = "loop"
    /\ clicks < 150
    /\ vars' # vars
    /\ last_outcome' \in {"probe_timeout", "scroll_timeout", "click_timeout"}

\* C13: a timeout with no timeout since the entry or the last activation
\* leaves the call in the loop, the click count as it was; a timeout right
\* after a timeout ends the loop (exit by timeouts); an activation sets the
\* count of consecutive failures back to 0, and the count tells the timeouts
\* since the entry or the last activation.
C13_TwoTimeouts ==
    /\ [][TimeoutPass =>
             /\ clicks' = clicks
             /\ consecutive_failures' = consecutive_failures + 1
             /\ consecutive_failures = 0 => lar_pc' = "loop" /\ lar_exit' = ""
             /\ consecutive_failures = 1 =>
                   lar_pc' = "after" /\ lar_exit' = "timeouts"]_vars
    /\ [][clicks' = clicks + 1 =>
             /\ last_outcome' = "clicked"
             /\ consecutive_failures' = 0
             /\ lar_pc' = "loop"]_vars
    /\ [][lar_pc = "loop" /\ consecutive_failures' # consecutive_failures =>
             TimeoutPass \/ clicks' = clicks + 1]_vars
    /\ [](lar_pc = "loop" => consecutive_failures \in {0, 1})
    /\ [](lar_exit = "timeouts" => consecutive_failures = 2)

\* C13's case: a timeout, an activation, then two timeouts in a row.
C13_Witness ==
    /\ lar_pc = "after"
    /\ lar_exit = "timeouts"
    /\ clicks = 1
    /\ consecutive_failures = 2

\* The passes of the loop that met a failure other than a timeout
ErrorPass ==
    /\ lar_pc = "loop"
    /\ clicks < 150
    /\ vars' # vars
    /\ last_outcome' \in {"probe_error", "scroll_error", "click_error"}

\* C14: a failure of the probe, the scroll or the click that is not a timeout
\* ends the loop in that pass: no activation is counted after it, the call
\* returns its click count to scrape_tab, run() stays in scrape_all_tabs, and
\* the next step of the tab is the extraction, on the rows the page shows.
C14_OtherFailureEnds ==
    /\ [][ErrorPass =>
             /\ lar_pc' = "after"
             /\ lar_exit' = "error"
             /\ clicks' = clicks
             /\ row_count' = row_count
             /\ run_pc' = run_pc]_vars
    /\ [][lar_exit = "error" /\ lar_pc = "after" =>
             /\ lar_pc' = "returned"
             /\ lar_ret' = clicks
             /\ clicks' = clicks
             /\ row_count' = row_count
             /\ run_pc' = run_pc]_vars
    /\ [][lar_exit = "error" /\ lar_pc = "returned"
             /\ run_pc = "scrape_all_tabs" =>
                /\ tab_trace'.extracted
                /\ df' \in {"empty", "data"}
                /\ tab_pc' = "store"
                /\ row_count' = row_count
                /\ run_pc' = "scrape_all_tabs"]_vars
    /\ [](lar_exit = "error" /\ run_pc # "idle" =>
             /\ run_pc = "scrape_all_tabs"
             /\ tab_pc = "load_all_rows"
             /\ ~escaped)

\* C14's case: one activation, then the click raised; the call has returned 1.
C14_Witness ==
    /\ run_pc = "scrape_all_tabs"
    /\ lar_pc = "returned"
    /\ lar_exit = "error"
    /\ last_outcome = "click_error"
    /\ lar_ret = 1
    /\ row_count > 0

----------------------------------------------------------------------------
(* Claims about the reconciler inside extract_table_data_fast *)

\* The rows of the page whose first cell has no ticker and description nodes
\* and a text of one line
CombinedRows ==
    {r \in 1..Len(ext_dom.rows) :
        /\ ext_dom.rows[r] # <<>>
        /\ ext_dom.rows[r][1].symbol = Null \/ ext_dom.rows[r][1].desc = Null
        /\ ~Contains(Strip(ext_dom.rows[r][1].innerText), "\n")}

\* C15: where the first header is ticker or symbol and a table is returned,
\* a row whose first cell came without the two nodes and with a text of one
\* line holds, in the returned table, the two parts extract_ticker_parts
\* makes of that text: 'AAPL Apple Inc.' is Ticker 'AAPL' and Company Name
\* 'Apple Inc.'. The test of line 229 counts '' as a name, so the text is
\* returned whole: this does not hold.
C15_CombinedTextIsSplit ==
    (/\ ext_pc = "done"
     /\ ext_locals.headers # <<>>
     /\ ext_locals.headers[1] \in TickerSpellings
     /\ Len(ext_ret.rows) = Len(ext_dom.rows)) =>
        \A r \in CombinedRows :
            LET parts ==
                  extract_ticker_parts(Strip(ext_dom.rows[r][1].innerText))
            IN  /\ ext_ret.cols[1] = "Ticker"
                /\ ext_ret.cols[2] = "Company Name"
                /\ ext_ret.rows[r][1] = parts[1]
                /\ ext_ret.rows[r][2] = parts[2]

----------------------------------------------------------------------------
(* Claims about the cells format_excel_professionally leaves as text *)

\* The branches of a cell that was selected as a percentage, a currency
\* amount or a number and did not parse
FailedPaths == {"percent_failed", "currency_failed", "number_failed"}

\* C16: a data cell after the second column that was selected as a
\* percentage, a currency amount or a number and failed to parse keeps the
\* value it had and is aligned left, and the steps after the cells (freeze
\* panes, header height) are done all the same. A percentage that does not
\* parse is aligned right at line 377: this does not hold.
C16_FailedParseIsLeftText ==
    fmt_pc = "done" =>
        /\ fmt_sheet.freeze_panes = "A2"
        /\ fmt_sheet.header_height = 25
        /\ \A r \in 1..Len(fmt_sheet.data) :
              \A c \in 3..Len(fmt_sheet.data[r]) :
                  fmt_sheet.data[r][c].path \in FailedPaths =>
                      /\ fmt_sheet.data[r][c].value = fmt_in.data[r][c].value
                      /\ fmt_sheet.data[r][c].border = "thin"
                      /\ fmt_sheet.data[r][c].horizontal = "left"

\* C17: formatting changes no value in the first two columns of a data row,
\* whatever the text (a currency amount, a percentage), no value of the
\* header row and no empty cell (None or '') of any column.
C17_FirstTwoUntouched ==
    fmt_pc = "done" =>
        /\ Len(fmt_sheet.header) = Len(fmt_in.header)
        /\ \A c \in 1..Len(fmt_in.header) :
              fmt_sheet.header[c].value = fmt_in.header[c].value
        /\ Len(fmt_sheet.data) = Len(fmt_in.data)
        /\ \A r \in 1..Len(fmt_in.data) :
              /\ Len(fmt_sheet.data[r]) = Len(fmt_in.data[r])
              /\ \A c \in 1..Len(fmt_in.data[r]) :
                    (c <= 2 \/ fmt_in.data[r][c].value.kind = "none"
                            \/ fmt_in.data[r][c].value.text = <<>>) =>
                        /\ fmt_sheet.data[r][c].value = fmt_in.data[r][c].value
                        /\ fmt_sheet.data[r][c].number_format = "General"

\* C17's case: '$5' and '7%' stay in the first two columns while '$1,000'
\* in the third became a number.
C17_Witness ==
    /\ fmt_pc = "done"
    /\ Len(fmt_sheet.data) = 1
    /\ fmt_sheet.data[1][1].value = Str(<<"$","5">>)
    /\ fmt_sheet.data[1][2].value = Str(<<"7","%">>)
    /\ fmt_sheet.data[1][2].horizontal = "left"
    /\ fmt_in.data[1][3].value = Str(<<"$","1",",","0","0","0">>)
    /\ fmt_sheet.data[1][3].value.kind = "float"

----------------------------------------------------------------------------
(* Claims about run() after the extraction of a tab *)

\* C18: when the extraction of a tab met a fault (the read in the page or
\* the building of the table raised) or found no header or no row, scrape_tab
\* has an empty table and nothing has left extract_table_data_fast: run() is
\* still in scrape_all_tabs, the empty table is stored under the tab's name,
\* the next tab is activated next and after the ninth tab comes the export.
C18_ExtractionFaultIsEmpty ==
    /\ [](tab_trace.met \in {"raised", "nothing"} =>
             /\ df = "empty"
             /\ tab_pc = "store"
             /\ run_pc = "scrape_all_tabs"
             /\ ~escaped)
    /\ [][tab_trace.met \in {"raised", "nothing"} =>
             /\ all_data' = Put(all_data, Tabs[idx + 1], "empty")
             /\ idx' = idx + 1
             /\ idx + 1 < 9 =>
                   tab_pc' = "click_tab" /\ run_pc' = "scrape_all_tabs"
             /\ idx + 1 = 9 => run_pc' = "save"]_vars
    /\ [][tab_pc = "load_all_rows" /\ tab_pc' # tab_pc =>
             /\ tab_trace'.extracted
             /\ tab_trace'.met \in {"raised", "nothing", "table"}
             /\ run_pc' = "scrape_all_tabs"]_vars

\* C18's case: the first tab gave a table, the extraction of the second
\* raised while the page showed rows.
C18_Witness ==
    /\ idx = 1
    /\ all_data[Tabs[1]] = "data"
    /\ tab_trace.met = "raised"
    /\ row_count > 0
    /\ tab_pc = "store"

\* C19: while the cumulative maximum is 0, a call of load_all_rows for a tab
\* that is not the first returns by the skip path, with no activation and the
\* maximum still 0, whatever the page shows; a first tab that fails to
\* activate leaves the maximum at 0, and from then on the maximum stays 0 and
\* no tab is paginated.
C19_ZeroMaximumSkips ==
    /\ [][lar_pc = "entry" /\ ~is_first_tab /\ total_rows_loaded = 0 =>
             /\ lar_pc' = "returned"
             /\ lar_exit' = "skip"
             /\ lar_ret' = 0
             /\ clicks' = 0
             /\ total_rows_loaded' = 0]_vars
    /\ [](idx = 0 /\ tab_trace.clicked = "failed" => total_rows_loaded = 0)
    /\ [][idx >= 1 /\ total_rows_loaded = 0 => total_rows_loaded' = 0]_vars
    /\ [](idx >= 1 /\ total_rows_loaded = 0 =>
             /\ lar_pc \notin {"loop", "after"}
             /\ clicks = 0
             /\ last_outcome = "")

\* C19's case: the fourth tab shows rows, the maximum is 0, the call has
\* returned by the skip path.
C19_Witness ==
    /\ idx = 3
    /\ total_rows_loaded = 0
    /\ row_count > 0
    /\ current_count = row_count
    /\ lar_pc = "returned"
    /\ lar_exit = "skip"

\* The rows of the page that have one cell per header cell
AlignedRows ==
    {r \in 1..Len(ext_dom.rows) :
        /\ ext_dom.rows[r] # <<>>
        /\ Len(ext_dom.rows[r]) = Len(ext_dom.fields)}

\* C20: in a returned table that holds every row of the page, a row with one
\* cell per header cell has the text of each cell after the first under the
\* column at the place and of the name of that cell's header. Without a
\* first header ticker or symbol the second value of the first cell takes
\* that place and the texts move one column to the right, the last under a
\* placeholder Column_i: this does not hold.
C20_CellsUnderTheirHeaders ==
    (/\ ext_pc = "done"
     /\ ext_ret.rows # <<>>
     /\ Len(ext_ret.rows) = Len(ext_dom.rows)
     /\ ext_locals.headers = ext_dom.fields) =>
        \A r \in AlignedRows :
            \A i \in 2..Len(ext_dom.fields) :
                \E c \in 1..Len(ext_ret.cols) :
                    /\ c \in {i, i + 1}
                    /\ ext_ret.cols[c] = ext_dom.fields[i]
                    /\ ext_ret.rows[r][c] = Strip(ext_dom.rows[r][i].innerText)

====
